---- MODULE Spec2Model ----
(***************************************************************************)
(* Model of the in-memory cart ledger and the feed cursor pagination of    *)
(* src/index.mjs (an express server).  Every route handler is synchronous  *)
(* (no await between its first and last statement), so one handler         *)
(* invocation is one atomic action.  Prices are kept in thousandths of a   *)
(* currency unit so that the toFixed(2) rounding of the summary does       *)
(* something; a rounded amount is kept in hundredths.                      *)
(***************************************************************************)
EXTENDS Integers, Sequences, FiniteSets, TLC

\* ---------------------------------------------------------------- bounds
\* lowest stored line quantity explored is -MaxNegQty (Add of a negative
\* quantity can lower a line without limit)
MaxNegQty == 1
\* quantity arguments range over -1 .. MaxQtyArg
MaxQtyArg == 3
\* number of requests without an x-session-id header (each one generates a
\* fresh session id)
MaxGen == 1
\* number of requests that can be in flight at once in SpecConc
MaxInflight == 2
\* length of the feed
FeedLen == 5
\* a client following nextCursor with a negative limit walks down without
\* end; it is followed down to -MaxNegCursor
MaxNegCursor == 3

\* ------------------------------------------------------ program constants
DefaultQuantity == 1
DefaultCursor == 0
DefaultLimit == 6

\* ------------------------------------------------------------ JS values
Undef == [t |-> "undefined"]
Num(n) == [t |-> "number", v |-> n]
Str(s) == [t |-> "string", v |-> s]

\* JS truthiness, as used by `!productId`
Truthy(x) ==
  CASE x.t = "undefined" -> FALSE
    [] x.t = "number" -> x.v # 0
    [] x.t = "string" -> Len(x.v) > 0

NaN == [nan |-> TRUE, n |-> 0]
Int2(n) == [nan |-> FALSE, n |-> n]

IsDigit(ch) == ch \in {"0", "1", "2", "3", "4", "5", "6", "7", "8", "9"}

DigitVal(ch) ==
  CASE ch = "0" -> 0 [] ch = "1" -> 1 [] ch = "2" -> 2 [] ch = "3" -> 3
    [] ch = "4" -> 4 [] ch = "5" -> 5 [] ch = "6" -> 6 [] ch = "7" -> 7
    [] ch = "8" -> 8 [] ch = "9" -> 9

RECURSIVE ParseDigits(_, _, _)
ParseDigits(s, i, acc) ==
  IF i > Len(s) \/ ~IsDigit(s[i]) THEN acc
  ELSE ParseDigits(s, i + 1, acc * 10 + DigitVal(s[i]))

\* parseInt of a string: optional sign, then the longest prefix of digits;
\* NaN when there is no digit.  (Strings here have no leading white space.)
ParseIntStr(s) ==
  LET neg == Len(s) > 0 /\ s[1] = "-"
      start == IF Len(s) > 0 /\ s[1] \in {"-", "+"} THEN 2 ELSE 1
  IN IF start > Len(s) \/ ~IsDigit(s[start]) THEN NaN
     ELSE Int2((IF neg THEN -1 ELSE 1) * ParseDigits(s, start, 0))

\* parseInt of any value: an integer number prints and parses back to
\* itself, undefined prints as "undefined" and parses to NaN
ParseInt(x) ==
  CASE x.t = "undefined" -> NaN
    [] x.t = "number" -> Int2(x.v)
    [] x.t = "string" -> ParseIntStr(x.v)

\* ------------------------------------------------------------- catalog
\* products.json is loaded once and never written.  Product 2 carries
\* inStock = false with stock left, product 3 inStock = true with none.
products ==
  << [id |-> 1, name |-> "Lamp", price |-> 9994, image |-> "lamp.png",
      inStock |-> TRUE, stock |-> 2],
     [id |-> 2, name |-> "Desk", price |-> 120000, image |-> "desk.png",
      inStock |-> FALSE, stock |-> 1],
     [id |-> 3, name |-> "Vase", price |-> 2502, image |-> "vase.png",
      inStock |-> TRUE, stock |-> 0],
     [id |-> 4, name |-> "Rug", price |-> 45008, image |-> "rug.png",
      inStock |-> TRUE, stock |-> 1] >>

\* products.find(p => p.id === n): index of the first match, 0 for none
FindProduct(pi) ==
  LET hits == {i \in 1..Len(products) : ~pi.nan /\ products[i].id = pi.n}
  IN IF hits = {} THEN 0 ELSE CHOOSE i \in hits : \A j \in hits : i <= j

\* ------------------------------------------------------------ sessions
HeaderIds == {<<"hdr", 1>>}
NoHeader == <<"none", 0>>
GenId(k) == <<"gen", k>>
SessionIds == HeaderIds \cup {GenId(k) : k \in 1..MaxGen}

\* getSessionId: the header when present, else a freshly generated id
\* (Date.now() and Math.random(): the g-th generated id is GenId(g))
getSessionId(h, g) == IF h # NoHeader THEN h ELSE GenId(g + 1)

AbsentCart == [present |-> FALSE, items |-> << >>]
EmptyCart == [present |-> TRUE, items |-> << >>]

\* ------------------------------------------------------------- summary
RECURSIVE SubtotalFrom(_, _)
SubtotalFrom(items, i) ==
  IF i > Len(items) THEN 0
  ELSE items[i].price * items[i].quantity + SubtotalFrom(items, i + 1)

\* items.reduce((sum, item) => sum + item.price * item.quantity, 0)
Subtotal(items) == SubtotalFrom(items, 1)

RECURSIVE ItemCountFrom(_, _)
ItemCountFrom(items, i) ==
  IF i > Len(items) THEN 0
  ELSE items[i].quantity + ItemCountFrom(items, i + 1)

\* variant: counts lines instead of adding up quantities
ItemCountOfLines(items) == Len(items)

\* items.reduce((sum, item) => sum + item.quantity, 0)
ItemCount(items) == ItemCountFrom(items, 1)

\* parseFloat(x.toFixed(2)): thousandths to the nearest hundredth; toFixed
\* rounds the magnitude, taking the larger candidate on a tie
ToFixed2(x) ==
  LET mag == IF x < 0 THEN -x ELSE x
      n == (mag + 5) \div 10
  IN IF x < 0 THEN -n ELSE n

Summary(items) ==
  [subtotal |-> ToFixed2(Subtotal(items)), itemCount |-> ItemCount(items)]

\* ----------------------------------------------------------- cart lines
\* variant: the comparison never matches, as with a string against a number
FindItemNoMatch(items, pi) == 0

\* items.find(item => item.productId === n): index of the first match
FindItem(items, pi) ==
  LET hits == {i \in 1..Len(items) : ~pi.nan /\ items[i].productId = pi.n}
  IN IF hits = {} THEN 0 ELSE CHOOSE i \in hits : \A j \in hits : i <= j

\* the object pushed for a new line
NewLine(product, quantity) ==
  [productId |-> product.id, name |-> product.name, price |-> product.price,
   image |-> product.image, quantity |-> quantity]

\* items.filter(item => item.productId !== n)
RemoveLine(items, pi) ==
  SelectSeq(items, LAMBDA it : pi.nan \/ it.productId # pi.n)

\* if (!cart[sessionId]) cart[sessionId] = { items: [], createdAt }
InitCart(c, sid) ==
  IF ~c[sid].present THEN [c EXCEPT ![sid] = EmptyCart] ELSE c

\* variant: stores the requested quantity instead of the sum
AccumulateLineOverwrites(items, ei, newQuantity) ==
  [items EXCEPT ![ei].quantity = newQuantity - items[ei].quantity]

\* line 385: existingItem.quantity = newQuantity
AccumulateLine(items, ei, newQuantity) ==
  [items EXCEPT ![ei].quantity = newQuantity]

\* variant: refuses a request for exactly the stock
StockCheckFailsAtStock(product, quantity) ==
  ~product.inStock \/ product.stock <= quantity

\* line 356: the first stock check of Add
StockCheckFails(product, quantity) ==
  ~product.inStock \/ product.stock < quantity

\* variant: the cart is initialised before the stock check
AddStockRejectAfterInit(c, sid, product) ==
  [cart |-> InitCart(c, sid), status |-> 400,
   body |-> [success |-> FALSE, error |-> "Insufficient stock",
             availableStock |-> product.stock]]

\* lines 357-361: the early return of the first stock check
AddStockReject(c, sid, product) ==
  [cart |-> c, status |-> 400,
   body |-> [success |-> FALSE, error |-> "Insufficient stock",
             availableStock |-> product.stock]]

\* ------------------------------------------------------------- handlers
\* A handler maps the cart mapping, the resolved session id and the request
\* to the cart mapping it leaves and the response it sends.

InternalError(c) ==
  [cart |-> c, status |-> 500,
   body |-> [success |-> FALSE, error |-> "TypeError"]]

GetHandler(c, sid, r) ==
  LET userCart == IF c[sid].present THEN c[sid] ELSE [items |-> << >>]
  IN [cart |-> c, status |-> 200,
      body |-> [success |-> TRUE, sessionId |-> sid,
                data |-> [items |-> userCart.items,
                          summary |-> Summary(userCart.items)]]]

AddHandler(c, sid, r) ==
  IF ~r.hasBody THEN InternalError(c)
  ELSE
  LET productId == r.productId
      quantity == IF r.quantity = Undef THEN DefaultQuantity ELSE r.quantity.v
      px == FindProduct(ParseInt(productId))
  IN
  IF ~Truthy(productId) THEN
    [cart |-> c, status |-> 400,
     body |-> [success |-> FALSE, error |-> "productId is required"]]
  ELSE IF px = 0 THEN
    [cart |-> c, status |-> 404,
     body |-> [success |-> FALSE, error |-> "Product not found"]]
  ELSE
  LET product == products[px] IN
  IF StockCheckFails(product, quantity) THEN AddStockReject(c, sid, product)
  ELSE
  LET c1 == InitCart(c, sid)
      items == c1[sid].items
      ei == FindItem(items, Int2(product.id))
      newQuantity == items[ei].quantity + quantity
  IN
  IF ei # 0 /\ product.stock < newQuantity THEN
    [cart |-> c1, status |-> 400,
     body |-> [success |-> FALSE,
               error |-> "Insufficient stock for requested quantity",
               availableStock |-> product.stock,
               currentInCart |-> items[ei].quantity]]
  ELSE
  LET items2 == IF ei # 0 THEN AccumulateLine(items, ei, newQuantity)
                ELSE Append(items, NewLine(product, quantity))
  IN [cart |-> [c1 EXCEPT ![sid].items = items2], status |-> 200,
      body |-> [success |-> TRUE, message |-> "Item added to cart",
                sessionId |-> sid,
                data |-> [items |-> items2, summary |-> Summary(items2)]]]

\* variant: Update adds to the line as Add does
UpdateApplyIncrements(items, ci, pi, quantity) ==
  IF quantity = 0 THEN RemoveLine(items, pi)
  ELSE [items EXCEPT ![ci].quantity = @ + quantity]

\* lines 447-452: drop the line on 0, else overwrite its quantity
UpdateApply(items, ci, pi, quantity) ==
  IF quantity = 0 THEN RemoveLine(items, pi)
  ELSE [items EXCEPT ![ci].quantity = quantity]

UpdateHandler(c, sid, r) ==
  IF ~r.hasBody THEN InternalError(c)
  ELSE
  LET productId == r.productId
      pi == ParseInt(productId)
      ci == FindItem(c[sid].items, pi)
      px == FindProduct(pi)
  IN
  IF ~Truthy(productId) \/ r.quantity = Undef THEN
    [cart |-> c, status |-> 400,
     body |-> [success |-> FALSE,
               error |-> "productId and quantity are required"]]
  ELSE IF ~c[sid].present THEN
    [cart |-> c, status |-> 404,
     body |-> [success |-> FALSE, error |-> "Cart not found"]]
  ELSE IF ci = 0 THEN
    [cart |-> c, status |-> 404,
     body |-> [success |-> FALSE, error |-> "Item not in cart"]]
  ELSE IF px = 0 THEN InternalError(c)   \* product.stock of undefined
  ELSE
  LET quantity == r.quantity.v
      product == products[px]
  IN
  IF quantity > product.stock THEN
    [cart |-> c, status |-> 400,
     body |-> [success |-> FALSE, error |-> "Insufficient stock",
               availableStock |-> product.stock]]
  ELSE
  LET items2 == UpdateApply(c[sid].items, ci, pi, quantity)
  IN [cart |-> [c EXCEPT ![sid].items = items2], status |-> 200,
      body |-> [success |-> TRUE, message |-> "Cart updated",
                data |-> [items |-> items2, summary |-> Summary(items2)]]]

\* variant: a cart emptied by Remove is deleted
RemoveApplyDropsEmpty(cartEntry, pi) ==
  IF RemoveLine(cartEntry.items, pi) = << >> THEN AbsentCart
  ELSE [cartEntry EXCEPT !.items = RemoveLine(cartEntry.items, pi)]

\* line 483: the cart entry after the filter
RemoveApply(cartEntry, pi) ==
  [cartEntry EXCEPT !.items = RemoveLine(cartEntry.items, pi)]

RemoveHandler(c, sid, r) ==
  IF ~c[sid].present THEN
    [cart |-> c, status |-> 404,
     body |-> [success |-> FALSE, error |-> "Cart not found"]]
  ELSE
  LET entry == RemoveApply(c[sid], ParseInt(r.productId))
  IN [cart |-> [c EXCEPT ![sid] = entry], status |-> 200,
      body |-> [success |-> TRUE, message |-> "Item removed from cart",
                data |-> [items |-> entry.items,
                          summary |-> Summary(entry.items)]]]

ClearHandler(c, sid, r) ==
  [cart |-> IF c[sid].present THEN [c EXCEPT ![sid] = AbsentCart] ELSE c,
   status |-> 200,
   body |-> [success |-> TRUE, message |-> "Cart cleared"]]

\* variant: the line goes to validItems at its snapshot price
CorrectedItemKeepsSnapshot(cartItem, product) == cartItem

\* line 564: { ...cartItem, price: product.price }
CorrectedItem(cartItem, product) == [cartItem EXCEPT !.price = product.price]

\* lines 535-567: what one cart line contributes to issues and validItems
ClassifyLine(cartItem) ==
  LET px == FindProduct(Int2(cartItem.productId))
      product == products[px]
  IN
  IF px = 0 THEN
    [issues |-> << [productId |-> cartItem.productId,
                    issue |-> "Product no longer exists"] >>,
     validItems |-> << >>]
  ELSE IF ~product.inStock \/ product.stock = 0 THEN
    [issues |-> << [productId |-> cartItem.productId,
                    name |-> cartItem.name, issue |-> "Out of stock"] >>,
     validItems |-> << >>]
  ELSE IF product.stock < cartItem.quantity THEN
    [issues |-> << [productId |-> cartItem.productId,
                    name |-> cartItem.name, issue |-> "Insufficient stock",
                    requested |-> cartItem.quantity,
                    available |-> product.stock] >>,
     validItems |-> << >>]
  ELSE IF product.price # cartItem.price THEN
    [issues |-> << [productId |-> cartItem.productId,
                    name |-> cartItem.name, issue |-> "Price changed",
                    oldPrice |-> cartItem.price,
                    newPrice |-> product.price] >>,
     validItems |-> << CorrectedItem(cartItem, product) >>]
  ELSE [issues |-> << >>, validItems |-> << cartItem >>]

\* the forEach of lines 534-568, from line i on
RECURSIVE ValidateFrom(_, _, _)
ValidateFrom(items, i, acc) ==
  IF i > Len(items) THEN acc
  ELSE LET k == ClassifyLine(items[i])
       IN ValidateFrom(items, i + 1,
                       [issues |-> acc.issues \o k.issues,
                        validItems |-> acc.validItems \o k.validItems])

ValidateHandler(c, sid, r) ==
  IF ~c[sid].present \/ Len(c[sid].items) = 0 THEN
    [cart |-> c, status |-> 400,
     body |-> [success |-> FALSE, error |-> "Cart is empty"]]
  ELSE
  LET v == ValidateFrom(c[sid].items, 1,
                        [issues |-> << >>, validItems |-> << >>])
  IN
  IF Len(v.issues) > 0 THEN
    [cart |-> c, status |-> 400,
     body |-> [success |-> FALSE, message |-> "Cart validation failed",
               issues |-> v.issues, validItems |-> v.validItems]]
  ELSE
    [cart |-> c, status |-> 200,
     body |-> [success |-> TRUE, message |-> "Cart is valid",
               data |-> [items |-> v.validItems,
                         summary |-> Summary(v.validItems)]]]

\* the route table for the cart endpoints
Handle(op, c, sid, r) ==
  CASE op = "get" -> GetHandler(c, sid, r)
    [] op = "add" -> AddHandler(c, sid, r)
    [] op = "update" -> UpdateHandler(c, sid, r)
    [] op = "remove" -> RemoveHandler(c, sid, r)
    [] op = "clear" -> ClearHandler(c, sid, r)
    [] op = "validate" -> ValidateHandler(c, sid, r)

\* ---------------------------------------------------------------- state
VARIABLES
  cart,      \* the cart mapping: session id -> [present, items]
  gen,       \* number of session ids generated so far
  req,       \* the request handled last
  resp,      \* the response sent last: [status, body]
  inflight,  \* requests received and not yet handled: slot -> request
  hist,      \* history of the concurrent Adds (see DispatchAdd)
  fq,        \* the feed query handled last
  fr,        \* its response
  fprev      \* the feed query and response before that

vars == << cart, gen, req, resp, inflight, hist, fq, fr, fprev >>
cartVars == << cart, gen, req, resp >>
concVars == << inflight, hist >>
feedVars == << fq, fr, fprev >>

NoReq ==
  [op |-> "none", header |-> NoHeader, sid |-> NoHeader, hasBody |-> FALSE,
   productId |-> Undef, quantity |-> Undef]
NoResp == [status |-> 0, body |-> [success |-> FALSE]]
NoHist == [sum |-> [i \in 1..Len(products) |-> 0], mark |-> {},
           raced |-> FALSE]
NoFeedQuery == [cursor |-> Undef, limit |-> Undef, category |-> ""]
NoFeedResp == [status |-> 0, body |-> [success |-> FALSE]]

\* ------------------------------------------------------ request inputs
Headers == HeaderIds \cup {NoHeader}

\* productId of a JSON body: absent, a number, or a string
ProductIdArgs ==
  {Undef, Num(0), Num(1), Num(2), Num(3), Str(<<"4", "x">>), Num(9)}

\* what a client that sends no x-session-id header is taken to ask for
AnonProductIdArgs == {Num(1), Num(9)}
AnonQuantityArgs == {Undef, Num(MaxQtyArg)}

\* :productId of the remove route is always a string
ProductIdParams ==
  {Str(<<"1">>), Str(<<"3">>), Str(<<"4">>), Str(<<"9">>), Str(<<"x">>)}

QuantityArgs == {Undef} \cup {Num(q) : q \in (-1)..MaxQtyArg}

QtyInBounds(c) ==
  \A s \in DOMAIN c : \A i \in 1..Len(c[s].items) :
    c[s].items[i].quantity >= -MaxNegQty

\* -------------------------------------------------------------- actions
Init ==
  /\ cart = [s \in SessionIds |-> AbsentCart]
  /\ gen = 0
  /\ req = NoReq
  /\ resp = NoResp
  /\ inflight = [k \in 1..MaxInflight |-> NoReq]
  /\ hist = NoHist
  /\ fq = NoFeedQuery
  /\ fr = NoFeedResp
  /\ fprev = [q |-> NoFeedQuery, r |-> NoFeedResp]

\* one request, from its arrival to its response; the server takes it when
\* the exchange before it is over
Serve(op, h, hasBody, productId, quantity) ==
  LET sid == getSessionId(h, gen)
      r == [op |-> op, header |-> h, sid |-> sid, hasBody |-> hasBody,
            productId |-> productId, quantity |-> quantity]
      out == Handle(op, cart, sid, r)
  IN /\ req = NoReq
     /\ h = NoHeader => gen < MaxGen
     /\ QtyInBounds(out.cart)
     /\ cart' = out.cart
     /\ gen' = IF h = NoHeader THEN gen + 1 ELSE gen
     /\ req' = r
     /\ resp' = [status |-> out.status, body |-> out.body]
     /\ UNCHANGED << concVars, feedVars >>

Get == \E h \in Headers : Serve("get", h, FALSE, Undef, Undef)

Add ==
  \E h \in Headers, p \in ProductIdArgs, q \in QuantityArgs :
    /\ h = NoHeader => p \in AnonProductIdArgs /\ q \in AnonQuantityArgs
    /\ Serve("add", h, TRUE, p, q)

Update ==
  \E h \in Headers, p \in ProductIdArgs, q \in QuantityArgs :
    /\ h = NoHeader => p \in AnonProductIdArgs /\ q \in AnonQuantityArgs
    /\ Serve("update", h, TRUE, p, q)

\* a POST or PUT whose body was not parsed: req.body is undefined
NoBody ==
  \E h \in Headers, op \in {"add", "update"} :
    Serve(op, h, FALSE, Undef, Undef)

Remove ==
  \E h \in Headers, p \in ProductIdParams :
    Serve("remove", h, FALSE, p, Undef)

Clear == \E h \in Headers : Serve("clear", h, FALSE, Undef, Undef)

Validate == \E h \in Headers : Serve("validate", h, FALSE, Undef, Undef)

\* the response has gone out: the request and response objects are dropped
Sent ==
  /\ req # NoReq
  /\ req' = NoReq
  /\ resp' = NoResp
  /\ UNCHANGED << cart, gen, concVars, feedVars >>

Next ==
  Get \/ Add \/ Update \/ NoBody \/ Remove \/ Clear \/ Validate \/ Sent

Spec == Init /\ [][Next]_vars

\* ------------------------------------------------- Validate in isolation
\* Validate as a function of the stored lines: the lines are drawn from a
\* bounded set that includes snapshots differing from the catalog and
\* products the catalog does not have.
SnapshotLines ==
  {[productId |-> n, name |-> "Item", price |-> pc, image |-> "item.png",
    quantity |-> q] :
     n \in {1, 2, 3, 9}, pc \in {9994, 8000}, q \in 1..MaxQtyArg}

StoredCarts ==
  {AbsentCart, EmptyCart}
    \cup {[present |-> TRUE, items |-> << a >>] : a \in SnapshotLines}
    \cup {[present |-> TRUE, items |-> << a, b >>] :
            a \in SnapshotLines, b \in SnapshotLines}

InitValidate ==
  /\ \E stored \in StoredCarts :
       cart = [s \in SessionIds |->
                 IF s \in HeaderIds THEN stored ELSE AbsentCart]
  /\ gen = 0
  /\ req = NoReq
  /\ resp = NoResp
  /\ inflight = [k \in 1..MaxInflight |-> NoReq]
  /\ hist = NoHist
  /\ fq = NoFeedQuery
  /\ fr = NoFeedResp
  /\ fprev = [q |-> NoFeedQuery, r |-> NoFeedResp]

SpecValidate == InitValidate /\ [][Validate]_vars

\* ------------------------------------------------------ concurrent Adds
\* Requests are received (and their JSON bodies parsed) concurrently; the
\* route handler of each then runs from its first to its last statement
\* without yielding, in whatever order the event loop takes them.
ConcProductIdArgs == {Num(1), Str(<<"1">>), Num(3)}
ConcQuantityArgs == {Undef, Num(1), Num(2)}

ReceiveAdd ==
  \E k \in 1..MaxInflight, h \in HeaderIds,
     p \in ConcProductIdArgs, q \in ConcQuantityArgs :
    /\ inflight[k] = NoReq
    /\ inflight' = [inflight EXCEPT ![k] =
                      [op |-> "add", header |-> h, sid |-> h,
                       hasBody |-> TRUE, productId |-> p, quantity |-> q]]
    /\ UNCHANGED << cartVars, hist, feedVars >>

\* hist.sum[i]: the quantities of the successful Adds of products[i];
\* hist.mark: the requests in flight that were already in flight when an
\* Add of the same session and product succeeded; hist.raced: such a
\* request has succeeded too
DispatchAdd ==
  \E k \in 1..MaxInflight :
    /\ inflight[k] # NoReq
    /\ LET r == inflight[k]
           out == AddHandler(cart, r.sid, r)
           px == FindProduct(ParseInt(r.productId))
           ok == out.body.success
           q == IF r.quantity = Undef THEN DefaultQuantity ELSE r.quantity.v
           siblings ==
             {j \in 1..MaxInflight \ {k} :
                /\ inflight[j] # NoReq
                /\ inflight[j].sid = r.sid
                /\ FindProduct(ParseInt(inflight[j].productId)) = px}
       IN /\ cart' = out.cart
          /\ req' = r
          /\ resp' = [status |-> out.status, body |-> out.body]
          /\ inflight' = [inflight EXCEPT ![k] = NoReq]
          /\ hist' =
               [sum |-> IF ok THEN [hist.sum EXCEPT ![px] = @ + q]
                        ELSE hist.sum,
                mark |-> (hist.mark \ {k})
                           \cup (IF ok THEN siblings ELSE {}),
                raced |-> hist.raced \/ (ok /\ k \in hist.mark)]
          /\ UNCHANGED << gen, feedVars >>

NextConc == ReceiveAdd \/ DispatchAdd

SpecConc == Init /\ [][NextConc]_vars

\* ------------------------------------------------------------------ feed
\* feed.json is loaded once and never written; categories differ in case
feed ==
  [i \in 1..FeedLen |->
     [id |-> i, category |-> IF i % 2 = 1 THEN "News" ELSE "tech"]]

\* String.prototype.toLowerCase on the category strings in use
ToLowerCase(str) ==
  CASE str \in {"News", "NEWS", "news"} -> "news"
    [] str \in {"Tech", "tech"} -> "tech"
    [] OTHER -> str

Null == [t |-> "null"]

DigitChar(d) ==
  CASE d = 0 -> "0" [] d = 1 -> "1" [] d = 2 -> "2" [] d = 3 -> "3"
    [] d = 4 -> "4" [] d = 5 -> "5" [] d = 6 -> "6" [] d = 7 -> "7"
    [] d = 8 -> "8" [] d = 9 -> "9"

RECURSIVE DigitsOf(_)
DigitsOf(n) ==
  IF n < 10 THEN << DigitChar(n) >>
  ELSE Append(DigitsOf(n \div 10), DigitChar(n % 10))

\* the decimal text of an integer, as a client puts it in a query string
NumberToString(n) == IF n < 0 THEN << "-" >> \o DigitsOf(-n) ELSE DigitsOf(n)

\* a + b on numbers that may be NaN
PlusNum(a, b) == IF a.nan \/ b.nan THEN NaN ELSE Int2(a.n + b.n)

\* an index argument of Array.prototype.slice: NaN counts as 0, a negative
\* index counts from the end, and the result is clamped to 0..len
RelativeIndex(x, len) ==
  LET k == IF x.nan THEN 0 ELSE x.n
  IN IF k < 0 THEN (IF len + k < 0 THEN 0 ELSE len + k)
     ELSE (IF k > len THEN len ELSE k)

\* arr.slice(start, end)
Slice(arr, start, end) ==
  LET from == RelativeIndex(start, Len(arr))
      to == RelativeIndex(end, Len(arr))
  IN IF to <= from THEN << >> ELSE SubSeq(arr, from + 1, to)

\* variant: a cursor equal to the length still counts as a next page
NextCursorInclusive(endIndex, len) ==
  IF ~endIndex.nan /\ endIndex.n <= len THEN Num(endIndex.n) ELSE Null

\* line 222: endIndex < filtered.length ? endIndex : null
NextCursor(endIndex, len) ==
  IF ~endIndex.nan /\ endIndex.n < len THEN Num(endIndex.n) ELSE Null

\* lines 209-214: the feed after the optional category filter
FilterFeed(category) ==
  IF category # ""
  THEN SelectSeq(feed, LAMBDA f :
                   ToLowerCase(f.category) = ToLowerCase(category))
  ELSE feed

FeedHandler(q) ==
  LET cursor == IF q.cursor = Undef THEN Num(DefaultCursor) ELSE q.cursor
      limit == IF q.limit = Undef THEN Num(DefaultLimit) ELSE q.limit
      cursorNum == ParseInt(cursor)
      limitNum == ParseInt(limit)
      filtered == FilterFeed(q.category)
      startIndex == cursorNum
      endIndex == PlusNum(startIndex, limitNum)
      items == Slice(filtered, startIndex, endIndex)
      nextCursor == NextCursor(endIndex, Len(filtered))
  IN [status |-> 200,
      body |-> [success |-> TRUE, data |-> items,
                pagination |-> [nextCursor |-> nextCursor,
                                hasMore |-> nextCursor # Null,
                                total |-> Len(filtered),
                                returned |-> Len(items)]]]

\* query-string values: absent or text
CursorArgs ==
  {Undef, Str(<<"x">>), Str(<<"-", "1">>), Str(<<"-", "2">>)}
    \cup {Str(NumberToString(n)) : n \in 0..(FeedLen + 1)}
LimitArgs ==
  {Undef, Str(<<"x">>), Str(<<"-", "1">>), Str(<<"-", "4">>),
   Str(<<"2", "p", "x">>)}
    \cup {Str(NumberToString(n)) : n \in 0..3}
CategoryArgs == {"", "news", "NEWS", "tech", "art"}

\* a client starts reading the feed somewhere
FeedRequest ==
  \E cu \in CursorArgs, li \in LimitArgs, ca \in CategoryArgs :
    LET q == [cursor |-> cu, limit |-> li, category |-> ca]
    IN /\ fr = NoFeedResp
       /\ fq' = q
       /\ fr' = FeedHandler(q)
       /\ fprev' = [q |-> NoFeedQuery, r |-> NoFeedResp]
       /\ UNCHANGED << cartVars, concVars >>

\* the client asks for the next page: same limit and category, the cursor
\* it was handed
FeedNextPage ==
  /\ fr.status = 200
  /\ fr.body.pagination.nextCursor # Null
  /\ fr.body.pagination.nextCursor.v >= -MaxNegCursor
  /\ LET q == [fq EXCEPT
                 !.cursor = Str(NumberToString(fr.body.pagination.nextCursor.v))]
     IN /\ fq' = q
        /\ fr' = FeedHandler(q)
        /\ fprev' = [q |-> fq, r |-> fr]
        /\ UNCHANGED << cartVars, concVars >>

\* the client repeats its request
FeedRepeat ==
  /\ fr.status = 200
  /\ fq' = fq
  /\ fr' = FeedHandler(fq)
  /\ fprev' = [q |-> fq, r |-> fr]
  /\ UNCHANGED << cartVars, concVars >>

\* the client stops reading
FeedDone ==
  /\ fr # NoFeedResp
  /\ fq' = NoFeedQuery
  /\ fr' = NoFeedResp
  /\ fprev' = [q |-> NoFeedQuery, r |-> NoFeedResp]
  /\ UNCHANGED << cartVars, concVars >>

NextFeed == FeedRequest \/ FeedNextPage \/ FeedRepeat \/ FeedDone

SpecFeed == Init /\ [][NextFeed]_vars

\* ------------------------------------------------- vocabulary of claims
Mutating == {"add", "update", "remove"}
Failed(o) == ~o.body.success
Succeeded(o) == o.body.success /\ o.status = 200

\* the productId a request names, as a set: empty when it names none
NamedIds(r) ==
  LET pi == ParseInt(r.productId) IN IF pi.nan THEN {} ELSE {pi.n}
InCatalog(n) == \E i \in 1..Len(products) : products[i].id = n
ProductOf(n) == CHOOSE pr \in {products[i] : i \in 1..Len(products)} : pr.id = n
\* the positions of the lines for product n
LinesOf(items, n) == {i \in 1..Len(items) : items[i].productId = n}
RequestedQty(r) ==
  IF r.quantity = Undef THEN DefaultQuantity ELSE r.quantity.v
WellFormed(r) == r.hasBody /\ Truthy(r.productId)

\* C1: a mutating cart operation (Add, Update, Remove) that answers with a
\* failure leaves the whole session -> cart mapping as it was.
FailedMutationKeepsCart ==
  [][(req'.op \in Mutating /\ Failed(resp')) => cart' = cart]_vars

\* an Add was refused by the check against the quantity already in the cart
FailedAddOnExistingLine ==
  /\ req.op = "add" /\ Failed(resp) /\ resp.status = 400
  /\ "currentInCart" \in DOMAIN resp.body
  /\ cart[req.sid].present /\ Len(cart[req.sid].items) > 0

\* C2: Add of a catalog product is refused with InsufficientStock (and the
\* available stock) when the product is flagged out of stock or has less
\* stock than requested; with a line already in the cart it is also refused
\* when stock is below line quantity + requested, reporting the stock and
\* the quantity in the cart; in every other case it succeeds.
AddStockContract ==
  [][\A n \in NamedIds(req') :
       (req'.op = "add" /\ WellFormed(req') /\ InCatalog(n)) =>
         LET pr == ProductOf(n)
             q == RequestedQty(req')
             old == cart[req'.sid].items
             ls == LinesOf(old, n)
         IN IF ~pr.inStock \/ pr.stock < q THEN
              /\ resp'.status = 400 /\ Failed(resp')
              /\ resp'.body.error = "Insufficient stock"
              /\ resp'.body.availableStock = pr.stock
            ELSE IF \E i \in ls : pr.stock < old[i].quantity + q THEN
              /\ resp'.status = 400 /\ Failed(resp')
              /\ resp'.body.error = "Insufficient stock for requested quantity"
              /\ resp'.body.availableStock = pr.stock
              /\ \A i \in ls : resp'.body.currentInCart = old[i].quantity
            ELSE Succeeded(resp')]_vars

\* an Add of an in-stock product was refused for asking more than the stock
AddRefusedForStock ==
  /\ req.op = "add" /\ Failed(resp) /\ resp.status = 400
  /\ "availableStock" \in DOMAIN resp.body
  /\ "currentInCart" \notin DOMAIN resp.body
  /\ \E n \in NamedIds(req) :
       InCatalog(n) /\ ProductOf(n).inStock /\ ProductOf(n).stock > 0

OneLinePerProduct ==
  \A s \in SessionIds : \A i, j \in 1..Len(cart[s].items) :
    cart[s].items[i].productId = cart[s].items[j].productId => i = j

\* C3: a cart holds at most one line per productId; a successful Add for a
\* product with a line adds the requested quantity to that line and keeps
\* the number and order of lines, and for a product without a line appends
\* one line with the product's name, price and image.
AddAccumulatesOrAppends ==
  /\ []OneLinePerProduct
  /\ [][\A n \in NamedIds(req') :
          (req'.op = "add" /\ Succeeded(resp')) =>
            LET old == cart[req'.sid].items
                new == cart'[req'.sid].items
                q == RequestedQty(req')
                pr == ProductOf(n)
            IN IF LinesOf(old, n) # {} THEN
                 /\ Len(new) = Len(old)
                 /\ \A i \in 1..Len(old) :
                      new[i] = IF i \in LinesOf(old, n)
                               THEN [old[i] EXCEPT !.quantity = @ + q]
                               ELSE old[i]
               ELSE
                 /\ Len(new) = Len(old) + 1
                 /\ \A i \in 1..Len(old) : new[i] = old[i]
                 /\ new[Len(new)] =
                      [productId |-> n, name |-> pr.name, price |-> pr.price,
                       image |-> pr.image, quantity |-> q]]_vars

\* the last Add went to the first of two lines: that line was there before
\* the second one was appended, so the Add accumulated
AddedToExistingLine ==
  /\ req.op = "add" /\ Succeeded(resp)
  /\ Len(cart[req.sid].items) = 2
  /\ \E n \in NamedIds(req) : cart[req.sid].items[1].productId = n

\* C4: Update answers NotFound without a cart or without a line for the
\* product, InsufficientStock when the quantity exceeds the product's
\* stock; otherwise quantity 0 removes exactly that line and any other
\* quantity replaces the line's quantity, other lines staying as they are.
UpdateContract ==
  [][\A n \in NamedIds(req') :
       (req'.op = "update" /\ WellFormed(req') /\ req'.quantity # Undef) =>
         LET old == cart[req'.sid].items
             new == cart'[req'.sid].items
             q == req'.quantity.v
             ls == LinesOf(old, n)
         IN IF ~cart[req'.sid].present \/ ls = {} THEN
              resp'.status = 404 /\ Failed(resp')
            ELSE IF q > ProductOf(n).stock THEN
              /\ resp'.status = 400 /\ Failed(resp')
              /\ resp'.body.error = "Insufficient stock"
            ELSE
              /\ Succeeded(resp')
              /\ IF q = 0
                 THEN new = SelectSeq(old, LAMBDA it : it.productId # n)
                 ELSE /\ Len(new) = Len(old)
                      /\ \A i \in 1..Len(old) :
                           new[i] = IF i \in ls
                                    THEN [old[i] EXCEPT !.quantity = q]
                                    ELSE old[i]]_vars

\* an Update to 0 removed one line and left another in the cart
UpdateToZeroRemovedLine ==
  /\ req.op = "update" /\ Succeeded(resp) /\ req.quantity = Num(0)
  /\ Len(cart[req.sid].items) = 1
  /\ \A n \in NamedIds(req) : LinesOf(cart[req.sid].items, n) = {}

\* C5: a cart entry appears only through a successful Add and disappears
\* only through Clear, which always succeeds; nothing else changes
\* presence, and Remove or Update-to-0 of the last line leaves an active
\* empty cart.
CartLifecycle ==
  [][/\ \A s \in SessionIds :
          /\ (~cart[s].present /\ cart'[s].present) =>
               (req'.op = "add" /\ req'.sid = s /\ Succeeded(resp'))
          /\ (cart[s].present /\ ~cart'[s].present) =>
               (req'.op = "clear" /\ req'.sid = s)
     /\ req'.op = "clear" => Succeeded(resp') /\ ~cart'[req'.sid].present
     /\ (req'.op = "add" /\ Succeeded(resp')) => cart'[req'.sid].present
     /\ (req'.op \in {"update", "remove"} /\ Succeeded(resp')) =>
          cart'[req'.sid].present
     /\ (req'.op \in {"get", "validate"} \/ Failed(resp')) =>
          \A s \in SessionIds : cart'[s].present = cart[s].present]_vars

\* an Update to 0 took the last line and the cart is still there, empty
LastLineGoneCartActive ==
  /\ req.op = "update" /\ Succeeded(resp) /\ req.quantity = Num(0)
  /\ cart[req.sid].present /\ cart[req.sid].items = << >>

\* sum of price * quantity and of quantity over the first k lines
RECURSIVE SigmaPrice(_, _)
SigmaPrice(items, k) ==
  IF k = 0 THEN 0
  ELSE SigmaPrice(items, k - 1) + items[k].quantity * items[k].price
RECURSIVE SigmaQty(_, _)
SigmaQty(items, k) ==
  IF k = 0 THEN 0 ELSE SigmaQty(items, k - 1) + items[k].quantity
\* x thousandths is c hundredths when rounded to 2 decimals
RoundsTo(x, c) ==
  LET mag == IF x < 0 THEN -x ELSE x
      cm == IF c < 0 THEN -c ELSE c
  IN /\ 10 * cm - 5 <= mag /\ mag < 10 * cm + 5
     /\ (c < 0 => x < 0) /\ (c > 0 => x > 0)

\* C7: in every successful response of Get, Add, Update and Remove the
\* returned lines are the session's stored lines, summary.subtotal is the
\* sum of price * quantity over them rounded to 2 decimals and
\* summary.itemCount the sum of their quantities.
SummaryMatchesLines ==
  (req.op \in {"get", "add", "update", "remove"} /\ Succeeded(resp)) =>
    LET lines == resp.body.data.items
        sm == resp.body.data.summary
    IN /\ lines = cart[req.sid].items
       /\ RoundsTo(SigmaPrice(lines, Len(lines)), sm.subtotal)
       /\ sm.itemCount = SigmaQty(lines, Len(lines))

\* a summary over two lines whose subtotal had to be rounded
RoundedSummaryOfTwoLines ==
  /\ req.op \in {"add", "update", "remove"} /\ Succeeded(resp)
  /\ Len(resp.body.data.items) = 2
  /\ resp.body.data.summary.itemCount >= 2
  /\ resp.body.data.summary.subtotal * 10 #
       SigmaPrice(resp.body.data.items, 2)

\* C9: every stored cart line has a quantity of at least 1, whatever
\* integer quantities Add and Update are given.
QuantitiesPositive ==
  \A s \in SessionIds : \A i \in 1..Len(cart[s].items) :
    cart[s].items[i].quantity >= 1

\* the cursor and limit of a feed query as numbers
CursorOf(q) == IF q.cursor = Undef THEN Int2(DefaultCursor) ELSE ParseInt(q.cursor)
LimitOf(q) == IF q.limit = Undef THEN Int2(DefaultLimit) ELSE ParseInt(q.limit)
\* a query whose cursor is an offset and whose limit is a count
OffsetQuery(q) ==
  /\ ~CursorOf(q).nan /\ CursorOf(q).n >= 0
  /\ ~LimitOf(q).nan /\ LimitOf(q).n >= 0
\* the entries among the first n of the feed that a category filter keeps
RECURSIVE KeptOfFirst(_, _)
KeptOfFirst(category, n) ==
  IF n = 0 THEN << >>
  ELSE IF category = "" \/
          ToLowerCase(feed[n].category) = ToLowerCase(category)
       THEN Append(KeptOfFirst(category, n - 1), feed[n])
       ELSE KeptOfFirst(category, n - 1)
Kept(category) == KeptOfFirst(category, FeedLen)
\* the entries at offsets lo .. hi-1 of a sequence
Window(arr, lo, hi) ==
  LET top == IF hi < Len(arr) THEN hi ELSE Len(arr)
  IN [k \in 1..(IF top > lo THEN top - lo ELSE 0) |-> arr[lo + k]]

\* C8: a feed request with cursor c and a limit returns the items at
\* offsets [c, c+limit) of the filtered feed, nextCursor c+limit when that
\* is below the filtered length and null otherwise, hasMore exactly when
\* nextCursor is not null; a request at the previous nextCursor returns the
\* next contiguous slice, and a repeated request the same slice.
FeedCursorPagination ==
  (fr.status = 200 /\ OffsetQuery(fq)) =>
    LET c == CursorOf(fq).n
        l == LimitOf(fq).n
        all == Kept(fq.category)
        pg == fr.body.pagination
    IN /\ fr.body.data = Window(all, c, c + l)
       /\ pg.nextCursor = IF c + l < Len(all) THEN Num(c + l) ELSE Null
       /\ pg.hasMore = (pg.nextCursor # Null)
       /\ (/\ fprev.r.status = 200 /\ OffsetQuery(fprev.q)
           /\ fprev.q.limit = fq.limit /\ fprev.q.category = fq.category
           /\ fprev.r.body.pagination.nextCursor = Num(c)) =>
            fprev.r.body.data \o fr.body.data =
              Window(all, CursorOf(fprev.q).n, c + l)
       /\ (fprev.r.status = 200 /\ fprev.q = fq) => fprev.r = fr

\* a second page of a filtered feed, following a first page
SecondPageOfFilteredFeed ==
  /\ fr.status = 200 /\ fprev.r.status = 200
  /\ OffsetQuery(fq) /\ OffsetQuery(fprev.q)
  /\ fq.category # "" /\ fprev.q.category = fq.category
  /\ fprev.r.body.pagination.nextCursor = Num(CursorOf(fq).n)
  /\ Len(fprev.r.body.data) > 0 /\ Len(fr.body.data) > 0
  /\ CursorOf(fq).n > 0

\* what Validate finds wrong with a line, first match first
Finding(line) ==
  IF ~InCatalog(line.productId) THEN "Product no longer exists"
  ELSE LET pr == ProductOf(line.productId)
       IN IF ~pr.inStock \/ pr.stock = 0 THEN "Out of stock"
          ELSE IF pr.stock < line.quantity THEN "Insufficient stock"
          ELSE IF pr.price # line.price THEN "Price changed"
          ELSE "none"
LivePriced(line) ==
  [line EXCEPT !.price = ProductOf(line.productId).price]

\* C6: Validate gives each line of a non-empty cart one finding, by
\* priority: product missing, out of stock, stock below quantity, price
\* changed, none; valid-items are, in cart order, the lines with no finding
\* as they are and the price-changed lines at the live price; it fails
\* exactly when there is a finding, and on success the summary is that of
\* valid-items.  On an absent or empty cart it fails with EmptyCart.
ValidateClassifies ==
  req.op = "validate" =>
    LET lines == cart[req.sid].items
        bad == SelectSeq(lines, LAMBDA ln : Finding(ln) # "none")
        good == SelectSeq(lines, LAMBDA ln :
                            Finding(ln) \in {"none", "Price changed"})
        fixed == [k \in 1..Len(good) |->
                    IF Finding(good[k]) = "none" THEN good[k]
                    ELSE LivePriced(good[k])]
    IN IF ~cart[req.sid].present \/ Len(lines) = 0 THEN
         /\ resp.status = 400 /\ Failed(resp)
         /\ resp.body.error = "Cart is empty"
       ELSE IF Len(bad) > 0 THEN
         /\ resp.status = 400 /\ Failed(resp)
         /\ Len(resp.body.issues) = Len(bad)
         /\ \A k \in 1..Len(bad) :
              /\ resp.body.issues[k].productId = bad[k].productId
              /\ resp.body.issues[k].issue = Finding(bad[k])
         /\ resp.body.validItems = fixed
       ELSE
         /\ Succeeded(resp)
         /\ resp.body.data.items = fixed
         /\ fixed = lines
         /\ RoundsTo(SigmaPrice(fixed, Len(fixed)),
                     resp.body.data.summary.subtotal)
         /\ resp.body.data.summary.itemCount = SigmaQty(fixed, Len(fixed))

\* a validation that failed on a changed price alone and handed back both
\* lines, the changed one at the live price
PriceChangeCorrected ==
  /\ req.op = "validate" /\ Failed(resp)
  /\ "issues" \in DOMAIN resp.body
  /\ Len(resp.body.issues) = 1
  /\ resp.body.issues[1].issue = "Price changed"
  /\ Len(resp.body.validItems) = 2
  /\ resp.body.validItems # cart[req.sid].items

\* the quantity the cart holds of products[i] in session s
HeldQty(s, i) ==
  LET ls == LinesOf(cart[s].items, products[i].id)
  IN IF ls = {} THEN 0 ELSE cart[s].items[CHOOSE k \in ls : TRUE].quantity
LostUpdate ==
  \E s \in HeaderIds, i \in 1..Len(products) :
    \/ HeldQty(s, i) < hist.sum[i]
    \/ Cardinality(LinesOf(cart[s].items, products[i].id)) > 1

ValidateNeverFindsIssue ==
  (req.op = "validate" /\ Len(cart[req.sid].items) > 0) =>
    /\ Succeeded(resp)
    /\ "issues" \notin DOMAIN resp.body
    /\ \A i \in 1..Len(cart[req.sid].items) :
         Finding(cart[req.sid].items[i]) = "none"

====
